---- MODULE Spec2Model ----
(***************************************************************************)
(* Model of spannerexample/main.go: a client that creates two handles,     *)
(* provisions a database with the Singers/Albums schema, seeds it with two *)
(* mutation batches and reads the Albums table back.                       *)
(*                                                                         *)
(* The database service and the client library are the environment: every  *)
(* call into them returns one of the outcomes its signature allows, chosen *)
(* nondeterministically.  The data store persists across runs of the       *)
(* program; everything else is per-process state.                          *)
(*                                                                         *)
(* Strings are sequences of one-character strings.  A generated UUID is    *)
(* the pair <<run, index>>: identifiers of one run and of different runs   *)
(* are distinct, which is the collision-freeness the UUID library offers.  *)
(***************************************************************************)
EXTENDS Integers, Sequences, FiniteSets, TLC

VARIABLES
    db,            \* main: the resource identifier (line 160)
    pc,            \* position of the single thread of control
    run,           \* number of the current process run (1..MaxRuns)
    adminClient,   \* Client.admin: "none" | "open" | "closed"
    dataClient,    \* Client.client: "none" | "open" | "closed"
    matches,       \* createDatabase: result of FindStringSubmatch
    createErr,     \* the error createDatabase returned to main in this run
    err,           \* main: the err variable
    uuids,         \* insert: the identifiers generated so far
    iterState,     \* the RowIterator: none|opened|iterating|exhausted|errored|closed
    pending,       \* rows the service has still to deliver on the iterator
    row,           \* queryAlbums: the row returned by the last iter.Next
    albums,        \* queryAlbums: the albums slice being built
    result,        \* main: the albums value queryAlbums returned
    rowLogs,       \* the "row" log lines emitted by main
    fatalMsg,      \* message of the logger.Fatal that ended the run, "" if none
    dbExists,      \* service: the database exists
    singersTbl,    \* service: rows of table Singers
    albumsTbl,     \* service: rows of table Albums
    reqLog,        \* history: remote requests issued in this run, in order
    called,        \* history: functions main has called in this run
    delivered,     \* history: rows iter.Next returned in this run
    stopCount,     \* history: number of iter.Stop calls in this run
    nextAfterStop, \* history: iter.Next was called on a stopped iterator
    m1Failed,      \* history: runs whose Apply(m1) returned an error
    m2Attempted,   \* history: runs that submitted Apply(m2)
    m2Committed    \* history: runs whose Apply(m2) committed

vars == <<db, pc, run, adminClient, dataClient, matches, createErr, err, uuids,
          iterState, pending, row, albums, result, rowLogs, fatalMsg,
          dbExists, singersTbl, albumsTbl, reqLog, called, delivered,
          stopCount, nextAfterStop, m1Failed, m2Attempted, m2Committed>>

procVars == <<adminClient, dataClient, matches, createErr, err, uuids>>
iterVars == <<iterState, pending, row, albums, result, delivered, stopCount,
              nextAfterStop>>
storeVars == <<dbExists, singersTbl, albumsTbl>>
histVars == <<m1Failed, m2Attempted, m2Committed>>

-----------------------------------------------------------------------------
(* Bounds *)

\* number of process runs against the same data store
MaxRuns == 3

\* length, in tokens, of the identifier strings the parser is tried on
MaxTokens == 6

-----------------------------------------------------------------------------
(* Strings *)

\* the literal "/databases/" of the pattern
Sep == <<"/", "d", "a", "t", "a", "b", "a", "s", "e", "s", "/">>

\* the word between the two slashes of Sep
Word == <<"d", "a", "t", "a", "b", "a", "s", "e", "s">>

\* pieces identifier strings are built from: a name character, a slash,
\* the word "databases" and a line break
Tokens == {<<"x">>, <<"/">>, Word, <<"\n">>}

RECURSIVE Concat(_)
Concat(ts) == IF ts = <<>> THEN <<>> ELSE Head(ts) \o Concat(Tail(ts))

TokenSeqs(n) == UNION {[1..k -> Tokens] : k \in 0..n}

Strings(n) == {Concat(ts) : ts \in TokenSeqs(n)}

-----------------------------------------------------------------------------
(* createDatabase: the identifier pattern, two groups around /databases/ *)

\* "." matches any character except a line break
DotStar(s) == \A i \in 1..Len(s) : s[i] /= "\n"

\* the literal /databases/ occupies positions i .. i+Len(Sep)-1 of s
SepAt(s, i) == /\ i + Len(Sep) - 1 <= Len(s)
               /\ SubSeq(s, i, i + Len(Sep) - 1) = Sep

\* positions of the literal at which the whole pattern matches s: group 1
\* is s before the literal, group 2 is s after it, ^ and $ anchor the text
MatchStarts(s) ==
    {i \in 1..Len(s) : /\ SepAt(s, i)
                       /\ DotStar(SubSeq(s, 1, i - 1))
                       /\ DotStar(SubSeq(s, i + Len(Sep), Len(s)))}

Largest(S) == CHOOSE i \in S : \A j \in S : j <= i

\* a lazy first group: the shortest prefix
LazySplit(S) == CHOOSE i \in S : \A j \in S : i <= j

\* the first group is greedy: it takes the longest prefix that lets the
\* rest of the pattern match
GreedySplit(S) == Largest(S)

\* regexp.FindStringSubmatch: nil (the empty slice) when s does not match,
\* otherwise the whole match and the two groups
FindStringSubmatch(s) ==
    IF MatchStarts(s) = {} THEN <<>>
    ELSE LET i == GreedySplit(MatchStarts(s))
         IN  <<s, SubSeq(s, 1, i - 1), SubSeq(s, i + Len(Sep), Len(s))>>

\* the test of line 59
InvalidDatabaseId(m) == m = <<>> \/ Len(m) /= 3

-----------------------------------------------------------------------------
(* Errors *)

NoErr == [kind |-> "nil", code |-> "OK"]

\* fmt.Errorf("Invalid database id %s", db): not an RPC status
InvalidIdErr == [kind |-> "fmt", code |-> "none"]

RpcErr(c) == [kind |-> "rpc", code |-> c]

\* an error of the UUID library or of a client constructor
LocalErr == [kind |-> "local", code |-> "none"]

\* status codes a failed call may carry, besides AlreadyExists
OtherCodes == {"Unavailable", "PermissionDenied"}

\* spanner.ErrCode: the status code of an RPC error, Unknown for an error
\* that carries no status
ErrCode(e) == IF e.kind = "nil" THEN "OK"
              ELSE IF e.kind = "rpc" THEN e.code
              ELSE "Unknown"

\* every create-database error ends the run
CreateIsFatalStrict(e) == e /= NoErr

\* no create-database error ends the run
CreateIsFatalNever(e) == FALSE

\* main, lines 169-173: the create-database error that ends the run
CreateIsFatal(e) == e /= NoErr /\ ErrCode(e) /= "AlreadyExists"

-----------------------------------------------------------------------------
(* insert: identifiers and mutations *)

\* insert generates 10 identifiers
NumUuids == 10

\* the string of the i-th (0-based) identifier generated in run r
NewRandom(r, i) == <<r, i>>

\* uuids[i] of the code (0-based) in the 1-based sequence u
At(u, i) == u[i + 1]

InsertOrUpdate(table, values) == [table |-> table, values |-> values]

\* lines 104-110
M1(u) == <<
    InsertOrUpdate("Singers", <<At(u, 0), "Marc", "Richards">>),
    InsertOrUpdate("Singers", <<At(u, 1), "Catalina", "Smith">>),
    InsertOrUpdate("Singers", <<At(u, 2), "Alice", "Trentor">>),
    InsertOrUpdate("Singers", <<At(u, 3), "Lea", "Martin">>),
    InsertOrUpdate("Singers", <<At(u, 4), "David", "Lomond">> ) >>

\* a second batch with the same AlbumId in two rows of one singer
M2Duplicate(u) == <<
    InsertOrUpdate("Albums", <<At(u, 0), At(u, 5), "Total Junk">>),
    InsertOrUpdate("Albums", <<At(u, 1), At(u, 6), "Go, Go, Go">>),
    InsertOrUpdate("Albums", <<At(u, 0), At(u, 5), "Green">>),
    InsertOrUpdate("Albums", <<At(u, 1), At(u, 8), "Forever Hold Your Peace">>),
    InsertOrUpdate("Albums", <<At(u, 2), At(u, 9), "Terrified">> ) >>

\* a second batch with a row whose SingerId is no row of the first batch
M2Orphan(u) == <<
    InsertOrUpdate("Albums", <<At(u, 0), At(u, 5), "Total Junk">>),
    InsertOrUpdate("Albums", <<At(u, 1), At(u, 6), "Go, Go, Go">>),
    InsertOrUpdate("Albums", <<At(u, 0), At(u, 7), "Green">>),
    InsertOrUpdate("Albums", <<At(u, 1), At(u, 8), "Forever Hold Your Peace">>),
    InsertOrUpdate("Albums", <<At(u, 9), At(u, 2), "Terrified">> ) >>

\* lines 111-117
M2(u) == <<
    InsertOrUpdate("Albums", <<At(u, 0), At(u, 5), "Total Junk">>),
    InsertOrUpdate("Albums", <<At(u, 1), At(u, 6), "Go, Go, Go">>),
    InsertOrUpdate("Albums", <<At(u, 0), At(u, 7), "Green">>),
    InsertOrUpdate("Albums", <<At(u, 1), At(u, 8), "Forever Hold Your Peace">>),
    InsertOrUpdate("Albums", <<At(u, 2), At(u, 9), "Terrified">> ) >>

-----------------------------------------------------------------------------
(* The data store: schema of lines 66-77 *)

\* PRIMARY KEY (SingerId)
SingerKey(r) == <<r[1]>>

\* PRIMARY KEY (SingerId, AlbumId)
AlbumKey(r) == <<r[1], r[2]>>

\* insert the row, or overwrite the row that has its key
UpsertSinger(tbl, r) == {x \in tbl : SingerKey(x) /= SingerKey(r)} \cup {r}

UpsertAlbum(tbl, r) == {x \in tbl : AlbumKey(x) /= AlbumKey(r)} \cup {r}

\* the tables <<Singers, Albums>> after the mutations of ms, in order
RECURSIVE ApplyMutations(_, _, _)
ApplyMutations(ms, st, at) ==
    IF ms = <<>> THEN <<st, at>>
    ELSE LET m == Head(ms)
         IN  IF m.table = "Singers"
             THEN ApplyMutations(Tail(ms), UpsertSinger(st, m.values), at)
             ELSE ApplyMutations(Tail(ms), st, UpsertAlbum(at, m.values))

\* INTERLEAVE IN PARENT Singers: every Albums row has its Singers row
Interleaved(st, at) == \A a \in at : \E s \in st : s[1] = a[1]

\* a batch that would leave a child row without its parent is rejected
Commits(ms) ==
    LET t == ApplyMutations(ms, singersTbl, albumsTbl)
    IN  Interleaved(t[1], t[2])

\* rank of an identifier, and of an Albums row in primary-key order
IdNum(id) == id[1] * NumUuids + id[2]

KeyNum(r) == IdNum(r[1]) * (NumUuids * (MaxRuns + 2)) + IdNum(r[2])

RECURSIVE Ascending(_)
Ascending(S) ==
    IF S = {} THEN <<>>
    ELSE LET m == CHOOSE x \in S : \A y \in S : KeyNum(x) <= KeyNum(y)
         IN  <<m>> \o Ascending(S \ {m})

Reverse(s) == [i \in 1..Len(s) |-> s[Len(s) + 1 - i]]

\* orders in which the service delivers the rows of a full scan: the query
\* has no ORDER BY, so the order is the service's choice
ScanOrders(S) == {Ascending(S), Reverse(Ascending(S))}

-----------------------------------------------------------------------------
(* Initial state *)

\* the literal of line 160, with one-character names
ExampleDb == <<"p", "/", "i">> \o Sep \o <<"e">>

\* identifiers a deploying engineer may have put in line 160
DbInputs == {ExampleDb, <<"p", "/", "i", "/", "e">>, <<"p">> \o Sep, <<>>}

\* a nil []*Album, and a non-nil one
NilList == [isNil |-> TRUE, rows |-> <<>>]

List(rows) == [isNil |-> FALSE, rows |-> rows]

NoRow == <<>>

\* the state of a process that has just started
ProcessStart ==
    /\ pc = "NewAdminClient"
    /\ adminClient = "none"
    /\ dataClient = "none"
    /\ matches = <<>>
    /\ createErr = NoErr
    /\ err = NoErr
    /\ uuids = <<>>
    /\ iterState = "none"
    /\ pending = <<>>
    /\ row = NoRow
    /\ albums = <<>>
    /\ result = NilList
    /\ rowLogs = <<>>
    /\ fatalMsg = ""
    /\ reqLog = <<>>
    /\ called = {}
    /\ delivered = <<>>
    /\ stopCount = 0
    /\ nextAfterStop = FALSE

Init ==
    /\ db \in DbInputs
    /\ run = 1
    /\ ProcessStart
    /\ dbExists \in BOOLEAN
    /\ singersTbl = {}
    /\ albumsTbl = {}
    /\ m1Failed = {}
    /\ m2Attempted = {}
    /\ m2Committed = {}

-----------------------------------------------------------------------------
(* Steps of main and of the functions it calls *)

\* Client.Close, lines 22-25: both handles are closed.  No function of the
\* program calls it, so it is no step of main.
Close == /\ adminClient' = "closed"
         /\ dataClient' = "closed"

\* logger.Fatal: logs and exits the process; no deferred call runs
Fatal(msg) == /\ fatalMsg' = msg
              /\ pc' = "exited"

Request(op, e) == [op |-> op, err |-> e]

\* createClients, lines 41-44
NewDatabaseAdminClient ==
    /\ pc = "NewAdminClient"
    /\ called' = called \cup {"createClients"}
    /\ \/ /\ adminClient' = "open"
          /\ pc' = "NewDataClient"
          /\ UNCHANGED <<err, fatalMsg>>
       \/ /\ err' = LocalErr
          /\ Fatal("Create client")
          /\ UNCHANGED adminClient
    /\ UNCHANGED <<db, run, dataClient, matches, createErr, uuids, rowLogs,
                   reqLog>>
    /\ UNCHANGED <<iterVars, storeVars, histVars>>

\* createClients, lines 46-54, and main, lines 164-166
NewClient ==
    /\ pc = "NewDataClient"
    /\ \/ /\ dataClient' = "open"
          /\ pc' = "createDatabase"
          /\ UNCHANGED <<err, fatalMsg>>
       \/ /\ err' = LocalErr
          /\ Fatal("Create client")
          /\ UNCHANGED dataClient
    /\ UNCHANGED <<db, run, adminClient, matches, createErr, uuids, rowLogs,
                   reqLog, called>>
    /\ UNCHANGED <<iterVars, storeVars, histVars>>

\* createDatabase, lines 58-61: the identifier does not match
CreateDatabaseInvalid ==
    /\ pc = "createDatabase"
    /\ InvalidDatabaseId(FindStringSubmatch(db))
    /\ matches' = FindStringSubmatch(db)
    /\ called' = called \cup {"createDatabase"}
    /\ createErr' = InvalidIdErr
    /\ err' = InvalidIdErr
    /\ pc' = "checkCreate"
    /\ UNCHANGED <<db, run, adminClient, dataClient, uuids, rowLogs, fatalMsg,
                   reqLog>>
    /\ UNCHANGED <<iterVars, storeVars, histVars>>

\* errors the service may answer a create-database request with
CreateDatabaseErrors ==
    {RpcErr(c) : c \in OtherCodes}
        \cup (IF dbExists THEN {RpcErr("AlreadyExists")} ELSE {})

\* createDatabase, lines 58-82: the request is sent; it returns an error or
\* the long-running operation
CreateDatabaseCall ==
    /\ pc = "createDatabase"
    /\ ~InvalidDatabaseId(FindStringSubmatch(db))
    /\ matches' = FindStringSubmatch(db)
    /\ called' = called \cup {"createDatabase"}
    /\ \/ /\ reqLog' = Append(reqLog, Request("CreateDatabase", NoErr))
          /\ pc' = "opWait"
          /\ UNCHANGED <<createErr, err>>
       \/ \E e \in CreateDatabaseErrors :
             /\ reqLog' = Append(reqLog, Request("CreateDatabase", e))
             /\ createErr' = e
             /\ err' = e
             /\ pc' = "checkCreate"
    /\ UNCHANGED <<db, run, adminClient, dataClient, uuids, rowLogs, fatalMsg>>
    /\ UNCHANGED <<iterVars, storeVars, histVars>>

\* createDatabase, lines 83-87: op.Wait; the operation creates the database
\* when there is none, and fails otherwise
OpWait ==
    /\ pc = "opWait"
    /\ \/ /\ ~dbExists
          /\ dbExists' = TRUE
          /\ reqLog' = Append(reqLog, Request("Wait", NoErr))
          /\ createErr' = NoErr
          /\ err' = NoErr
       \/ \E e \in CreateDatabaseErrors :
             /\ reqLog' = Append(reqLog, Request("Wait", e))
             /\ createErr' = e
             /\ err' = e
             /\ UNCHANGED dbExists
    /\ pc' = "checkCreate"
    /\ UNCHANGED <<db, run, adminClient, dataClient, matches, uuids, rowLogs,
                   fatalMsg, called, singersTbl, albumsTbl>>
    /\ UNCHANGED <<iterVars, histVars>>

\* main, lines 169-174
CheckCreate ==
    /\ pc = "checkCreate"
    /\ IF CreateIsFatal(err)
       THEN Fatal("Create database")
       ELSE pc' = "NewRandom" /\ UNCHANGED fatalMsg
    /\ UNCHANGED <<db, run, procVars, rowLogs, reqLog, called>>
    /\ UNCHANGED <<iterVars, storeVars, histVars>>

\* insert, lines 95-102: one round of the loop
NewRandomStep ==
    /\ pc = "NewRandom"
    /\ called' = called \cup {"insert"}
    /\ \/ /\ uuids' = Append(uuids, NewRandom(run, Len(uuids)))
          /\ pc' = IF Len(uuids) + 1 < NumUuids THEN "NewRandom" ELSE "applyM1"
          /\ UNCHANGED err
       \/ /\ err' = LocalErr
          /\ pc' = "checkInsert"
          /\ UNCHANGED uuids
    /\ UNCHANGED <<db, run, adminClient, dataClient, matches, createErr,
                   rowLogs, fatalMsg, reqLog>>
    /\ UNCHANGED <<iterVars, storeVars, histVars>>

\* the error of Apply(m1) is not looked at
AfterM1Ignore(e) == "applyM2"

\* insert, lines 119-121: where insert goes after Apply(m1) returned e
AfterM1(e) == IF e /= NoErr THEN "checkInsert" ELSE "applyM2"

\* errors the service may answer a mutation batch with
ApplyErrors == {RpcErr(c) : c \in OtherCodes}

\* client.Apply(ctx, ms) answers e: the batch is applied as a whole
\* (committed) or not at all; it is applied when e is nil, and an error may
\* also be reported for a batch that was applied (the answer was lost)
Apply(ms, e, committed) ==
    /\ e = NoErr => committed
    /\ committed => Commits(ms)
    /\ singersTbl' = IF committed
                     THEN ApplyMutations(ms, singersTbl, albumsTbl)[1]
                     ELSE singersTbl
    /\ albumsTbl' = IF committed
                    THEN ApplyMutations(ms, singersTbl, albumsTbl)[2]
                    ELSE albumsTbl

\* insert, lines 118-121: client.Apply(ctx, m1)
ApplyM1 ==
    /\ pc = "applyM1"
    /\ \E e \in {NoErr} \cup ApplyErrors, committed \in BOOLEAN :
          /\ Apply(M1(uuids), e, committed)
          /\ reqLog' = Append(reqLog, Request("ApplyM1", e))
          /\ err' = e
          /\ pc' = AfterM1(e)
          /\ m1Failed' = IF e /= NoErr THEN m1Failed \cup {run} ELSE m1Failed
    /\ UNCHANGED <<db, run, adminClient, dataClient, matches, createErr,
                   uuids, rowLogs, fatalMsg, called, dbExists, m2Attempted,
                   m2Committed>>
    /\ UNCHANGED iterVars

\* insert, lines 122-123: client.Apply(ctx, m2)
ApplyM2 ==
    /\ pc = "applyM2"
    /\ m2Attempted' = m2Attempted \cup {run}
    /\ \E e \in {NoErr} \cup ApplyErrors \cup {RpcErr("NotFound")},
          committed \in BOOLEAN :
          /\ e = RpcErr("NotFound") <=> ~Commits(M2(uuids))
          /\ Apply(M2(uuids), e, committed)
          /\ reqLog' = Append(reqLog, Request("ApplyM2", e))
          /\ err' = e
          /\ m2Committed' = IF committed
                             THEN m2Committed \cup {run} ELSE m2Committed
    /\ pc' = "checkInsert"
    /\ UNCHANGED <<db, run, adminClient, dataClient, matches, createErr,
                   uuids, rowLogs, fatalMsg, called, dbExists, m1Failed>>
    /\ UNCHANGED iterVars

\* main, lines 177-179
CheckInsert ==
    /\ pc = "checkInsert"
    /\ IF err /= NoErr
       THEN Fatal("insert records")
       ELSE pc' = "Query" /\ UNCHANGED fatalMsg
    /\ UNCHANGED <<db, run, procVars, rowLogs, reqLog, called>>
    /\ UNCHANGED <<iterVars, storeVars, histVars>>

\* queryAlbums, lines 127-130: the query is opened on a snapshot of Albums;
\* iter.Stop is deferred
Query ==
    /\ pc = "Query"
    /\ called' = called \cup {"queryAlbums"}
    /\ reqLog' = Append(reqLog, Request("Query", NoErr))
    /\ iterState' = "opened"
    /\ pending' \in ScanOrders(albumsTbl)
    /\ albums' = <<>>
    /\ pc' = "Next"
    /\ UNCHANGED <<db, run, procVars, rowLogs, fatalMsg, row, result,
                   delivered, stopCount, nextAfterStop>>
    /\ UNCHANGED <<storeVars, histVars>>

\* iter.Stop
Stop ==
    /\ stopCount' = stopCount + 1
    /\ iterState' = "closed"

\* iter.Stop on the normal return only
StopOnSuccess(e) == IF e = NoErr THEN Stop ELSE UNCHANGED <<stopCount, iterState>>

\* the deferred call of line 130, run as queryAlbums returns with error e
DeferredStop(e) == Stop

\* the rows decoded so far are returned with the error
ErrResultPartial(a) == [isNil |-> FALSE, rows |-> a]

\* lines 137 and 143: the list queryAlbums returns with an error
ErrResult(a) == NilList

\* a return statement of queryAlbums: the results are set, the deferred
\* call is still to run
Return(res, e) ==
    /\ result' = res
    /\ err' = e
    /\ iterState' = IF e = NoErr THEN "exhausted" ELSE "errored"
    /\ pc' = "deferred"

\* errors the service may end a read with
ReadErrors == {RpcErr(c) : c \in OtherCodes}

\* queryAlbums, lines 132-138: iter.Next
Next ==
    /\ pc = "Next"
    /\ nextAfterStop' = (nextAfterStop \/ iterState = "closed")
    /\ \/ /\ pending = <<>>
          /\ Return(List(albums), NoErr)
          /\ UNCHANGED <<pending, row, delivered, stopCount>>
       \/ \E e \in ReadErrors :
             /\ Return(ErrResult(albums), e)
             /\ UNCHANGED <<pending, row, delivered, stopCount>>
       \/ /\ pending /= <<>>
          /\ row' = Head(pending)
          /\ pending' = Tail(pending)
          /\ delivered' = Append(delivered, Head(pending))
          /\ iterState' = "iterating"
          /\ pc' = "Columns"
          /\ UNCHANGED <<result, err, stopCount>>
    /\ UNCHANGED <<db, run, adminClient, dataClient, matches, createErr, uuids,
                   albums, rowLogs, fatalMsg, reqLog, called>>
    /\ UNCHANGED <<storeVars, histVars>>

\* a decoding error of row.Columns
DecodeErr == [kind |-> "decode", code |-> "none"]

\* queryAlbums, lines 139-152: the row is decoded and appended
Columns ==
    /\ pc = "Columns"
    /\ \/ /\ albums' = Append(albums, row)
          /\ pc' = "Next"
          /\ UNCHANGED <<result, err, stopCount, iterState>>
       \/ /\ Return(ErrResult(albums), DecodeErr)
          /\ UNCHANGED <<albums, stopCount>>
    /\ UNCHANGED <<db, run, adminClient, dataClient, matches, createErr, uuids,
                   pending, row, delivered, nextAfterStop, rowLogs, fatalMsg,
                   reqLog, called>>
    /\ UNCHANGED <<storeVars, histVars>>

\* queryAlbums returns to main, line 181: the deferred iter.Stop runs
Deferred ==
    /\ pc = "deferred"
    /\ DeferredStop(err)
    /\ pc' = "checkQuery"
    /\ UNCHANGED <<db, run, procVars, rowLogs, fatalMsg, reqLog, called,
                   pending, row, albums, result, delivered, nextAfterStop>>
    /\ UNCHANGED <<storeVars, histVars>>

\* main, lines 182-184
CheckQuery ==
    /\ pc = "checkQuery"
    /\ IF err /= NoErr
       THEN Fatal("query records")
       ELSE pc' = "logRows" /\ UNCHANGED fatalMsg
    /\ UNCHANGED <<db, run, procVars, rowLogs, reqLog, called>>
    /\ UNCHANGED <<iterVars, storeVars, histVars>>

\* main, lines 186-194: one "row" line per album, then main returns
LogRows ==
    /\ pc = "logRows"
    /\ rowLogs' = result.rows
    /\ pc' = "exited"
    /\ UNCHANGED <<db, run, procVars, fatalMsg, reqLog, called>>
    /\ UNCHANGED <<iterVars, storeVars, histVars>>

\* the operator runs the program again, against the same data store
NewRun ==
    /\ pc = "exited"
    /\ run < MaxRuns
    /\ run' = run + 1
    /\ pc' = "NewAdminClient"
    /\ adminClient' = "none"
    /\ dataClient' = "none"
    /\ matches' = <<>>
    /\ createErr' = NoErr
    /\ err' = NoErr
    /\ uuids' = <<>>
    /\ iterState' = "none"
    /\ pending' = <<>>
    /\ row' = NoRow
    /\ albums' = <<>>
    /\ result' = NilList
    /\ rowLogs' = <<>>
    /\ fatalMsg' = ""
    /\ reqLog' = <<>>
    /\ called' = {}
    /\ delivered' = <<>>
    /\ stopCount' = 0
    /\ nextAfterStop' = FALSE
    /\ UNCHANGED <<db, storeVars, histVars>>

MainNext ==
    \/ NewDatabaseAdminClient
    \/ NewClient
    \/ CreateDatabaseInvalid
    \/ CreateDatabaseCall
    \/ OpWait
    \/ CheckCreate
    \/ NewRandomStep
    \/ ApplyM1
    \/ ApplyM2
    \/ CheckInsert
    \/ Query
    \/ Next
    \/ Columns
    \/ Deferred
    \/ CheckQuery
    \/ LogRows
    \/ NewRun

Spec == Init /\ [][MainNext]_vars

-----------------------------------------------------------------------------
(* The identifier parser on its own: main at the call of createDatabase,   *)
(* line 168, for every identifier string up to MaxTokens tokens            *)

ParseInit ==
    /\ db \in Strings(MaxTokens)
    /\ run = 1
    /\ pc = "createDatabase"
    /\ adminClient = "open"
    /\ dataClient = "open"
    /\ matches = <<>>
    /\ createErr = NoErr
    /\ err = NoErr
    /\ uuids = <<>>
    /\ iterState = "none"
    /\ pending = <<>>
    /\ row = NoRow
    /\ albums = <<>>
    /\ result = NilList
    /\ rowLogs = <<>>
    /\ fatalMsg = ""
    /\ reqLog = <<>>
    /\ called = {"createClients"}
    /\ delivered = <<>>
    /\ stopCount = 0
    /\ nextAfterStop = FALSE
    /\ dbExists = FALSE
    /\ singersTbl = {}
    /\ albumsTbl = {}
    /\ m1Failed = {}
    /\ m2Attempted = {}
    /\ m2Committed = {}

ParseNext ==
    \/ CreateDatabaseInvalid
    \/ CreateDatabaseCall

ParseSpec == ParseInit /\ [][ParseNext]_vars

-----------------------------------------------------------------------------
(* Vocabulary of the properties *)

Range(q) == {q[i] : i \in 1..Len(q)}

\* main is past the check of createDatabase's error (lines 169-174)
PastCreateCheck ==
    pc \notin {"NewAdminClient", "NewDataClient", "createDatabase", "opWait",
               "checkCreate"}

\* main is past the check of insert's error (lines 177-179)
PastInsertCheck ==
    PastCreateCheck /\ pc \notin {"NewRandom", "applyM1", "applyM2", "checkInsert"}

\* main has reached the call of insert, of queryAlbums
InsertReached == pc = "NewRandom" \/ "insert" \in called

QueryReached == pc = "Query" \/ "queryAlbums" \in called

\* queryAlbums has executed a return statement in this run
QueryReturned ==
    "queryAlbums" \in called /\ pc \in {"deferred", "checkQuery", "logRows", "exited"}

\* queryAlbums has handed its results to main in this run
QueryBackInMain ==
    "queryAlbums" \in called /\ pc \in {"checkQuery", "logRows", "exited"}

Ops(q) == {q[i].op : i \in 1..Len(q)}

\* the run whose insert generated the AlbumId of an Albums row
RunOfAlbum(r) == r[2][1]

\* every place a row read from Albums shows up in
RowsRead ==
    Range(pending) \cup Range(delivered) \cup Range(albums)
        \cup Range(result.rows) \cup Range(rowLogs)

\* the identifiers run r generates
RunUuids(r) == [i \in 1..NumUuids |-> NewRandom(r, i - 1)]

\* the child rows of run r's second batch
ChildRows(r) == {M2(RunUuids(r))[k].values : k \in 1..Len(M2(RunUuids(r)))}

-----------------------------------------------------------------------------
(* C1 *)

\* C1: when createDatabase returns an error whose code is AlreadyExists,
\* main does not terminate there: it calls insert and, when insert returns
\* no error, queryAlbums.  When createDatabase returns any other error
\* (the non-RPC "Invalid database id" error included), main ends with the
\* fatal "Create database" and neither insert nor queryAlbums is called,
\* no mutation batch and no query is issued.
C1_AlreadyExistsTolerated ==
    /\ (PastCreateCheck /\ ErrCode(createErr) = "AlreadyExists") =>
          /\ fatalMsg \notin {"Create client", "Create database"}
          /\ InsertReached
          /\ (PastInsertCheck /\ fatalMsg /= "insert records") => QueryReached
    /\ (PastCreateCheck /\ createErr /= NoErr
            /\ ErrCode(createErr) /= "AlreadyExists") =>
          /\ pc = "exited"
          /\ fatalMsg = "Create database"
          /\ "insert" \notin called
          /\ "queryAlbums" \notin called
          /\ uuids = <<>>
          /\ Ops(reqLog) \cap {"ApplyM1", "ApplyM2", "Query"} = {}

\* a run against an existing database got AlreadyExists and went through
\* the seed step and the read step
C1_Witness ==
    /\ pc = "exited"
    /\ fatalMsg = ""
    /\ ErrCode(createErr) = "AlreadyExists"
    /\ Len(rowLogs) >= 5

-----------------------------------------------------------------------------
(* C2 *)

\* C2: in a run whose Apply(m1) failed, Apply(m2) is never submitted, and
\* no Albums row of that run is in the table or in anything a later read
\* returns.
C2_NoChildAfterParentFailure ==
    \A r \in m1Failed :
        /\ r \notin m2Attempted
        /\ r \notin m2Committed
        /\ \A a \in albumsTbl \cup RowsRead : RunOfAlbum(a) /= r

\* the first run's parent batch failed and the second run read the table
C2_Witness ==
    /\ 1 \in m1Failed
    /\ run = 2
    /\ pc = "exited"
    /\ Len(rowLogs) = 5

-----------------------------------------------------------------------------
(* C3 *)

\* the read is in one of the states of the sequence
\* opened -> iterating -> {exhausted | errored} -> closed
IterStep(a, b) ==
    \/ a = b
    \/ a = "none" /\ b = "opened"
    \/ a \in {"opened", "iterating"} /\ b \in {"iterating", "exhausted", "errored"}
    \/ a \in {"exhausted", "errored"} /\ b = "closed"
    \/ a = "closed" /\ b = "none"

\* C3, the states: iter.Stop has run exactly once when queryAlbums has
\* handed back to main, on each of its three exits, never before, and no
\* row is requested from a stopped iterator.
C3_StopInv ==
    /\ stopCount <= 1
    /\ ~nextAfterStop
    /\ QueryBackInMain => (stopCount = 1 /\ iterState = "closed")
    /\ pc \in {"Next", "Columns", "deferred"} => stopCount = 0
    /\ pc \in {"Next", "Columns"} => iterState \in {"opened", "iterating"}
    /\ pc = "deferred" => iterState = (IF err = NoErr THEN "exhausted" ELSE "errored")

\* C3: the read sequence opened by queryAlbums is closed exactly once on
\* every exit path and follows opened -> iterating (0..N) ->
\* {exhausted | errored} -> closed.
C3_ClosedExactlyOnce ==
    /\ []C3_StopInv
    /\ [][IterStep(iterState, iterState')]_vars

\* a row failed to decode after two rows had been read, and the iterator
\* was stopped
C3_Witness ==
    /\ QueryBackInMain
    /\ err = DecodeErr
    /\ Len(delivered) = 3
    /\ stopCount = 1

-----------------------------------------------------------------------------
(* C4 *)

\* C4: both handles acquired at startup are closed when the process exits.
C4_HandlesClosedAtExit ==
    pc = "exited" => (adminClient /= "open" /\ dataClient /= "open")

-----------------------------------------------------------------------------
(* C5 *)

\* C5 as stated: after a successful seed step the query of the run returns
\* exactly the 5 child rows of the run, in every run.
C5_ExactlyFiveRows ==
    (QueryBackInMain /\ err = NoErr) =>
        /\ Len(result.rows) = 5
        /\ Range(result.rows) = ChildRows(run)

\* C5 amended: after a successful seed step the query of the run, when it
\* succeeds, returns every row of Albums once: the 5 child rows of the run
\* and the 5 child rows of each earlier run whose second batch committed.
C5_AllCommittedChildRows ==
    /\ albumsTbl = UNION {ChildRows(r) : r \in m2Committed}
    /\ (QueryBackInMain /\ err = NoErr) =>
          /\ run \in m2Committed
          /\ ChildRows(run) \subseteq Range(result.rows)
          /\ Range(result.rows) = UNION {ChildRows(r) : r \in m2Committed}
          /\ Len(result.rows) = 5 * Cardinality(m2Committed)
          /\ (m2Committed = {run} => Len(result.rows) = 5)

\* the second seeded run read ten rows
C5_Witness ==
    /\ QueryBackInMain
    /\ err = NoErr
    /\ m2Committed = {1, 2}
    /\ Len(result.rows) = 10

-----------------------------------------------------------------------------
(* C6 *)

Contains(s, t) == \E i \in 1..Len(s) : /\ i + Len(t) - 1 <= Len(s)
                                       /\ SubSeq(s, i, i + Len(t) - 1) = t

HasPrefix(s, t) == Len(t) <= Len(s) /\ SubSeq(s, 1, Len(t)) = t

\* the identifier is parent, "/databases/", name with the literal at i
Before(s, i) == SubSeq(s, 1, i - 1)

After(s, i) == SubSeq(s, i + Len(Sep), Len(s))

\* createDatabase has parsed db and sent the request with these two parts
RequestFor(parent, name) ==
    /\ matches = <<db, parent, name>>
    /\ createErr /= InvalidIdErr
    /\ reqLog /= <<>>
    /\ reqLog[1].op = "CreateDatabase"

\* createDatabase has failed with the invalid-identifier error
InvalidIdentifier ==
    /\ matches = <<>>
    /\ createErr = InvalidIdErr
    /\ reqLog = <<>>

\* C6 as stated: for every way of reading db as parent/databases/name the
\* request carries (parent, name); a db with no /databases/ segment fails.
C6_EverySplit ==
    pc /= "createDatabase" =>
        /\ \A i \in 1..Len(db) :
              SepAt(db, i) => RequestFor(Before(db, i), After(db, i))
        /\ ~Contains(db, Sep) => InvalidIdentifier

\* C6 amended: when db has no line break and is parent/databases/name with
\* a name that neither contains /databases/ nor begins with databases/
\* (no /databases/ starts after the joining one), the request carries
\* (parent, name), also with parent or name empty or parent containing
\* /databases/; a db with no /databases/ segment fails.
C6_LastSplit ==
    pc /= "createDatabase" =>
        /\ \A i \in 1..Len(db) :
              ( /\ SepAt(db, i)
                /\ ~Contains(db, <<"\n">>)
                /\ ~Contains(After(db, i), Sep)
                /\ ~HasPrefix(After(db, i), Tail(Sep)) )
              => RequestFor(Before(db, i), After(db, i))
        /\ ~Contains(db, Sep) => InvalidIdentifier

\* a parent that itself contains /databases/, followed by an empty name
C6_Witness ==
    /\ pc /= "createDatabase"
    /\ db = Sep \o Sep
    /\ matches = <<db, Sep, <<>> >>

-----------------------------------------------------------------------------
(* C7 *)

\* C7: when the identifier does not match the pattern, the run ends with
\* no client created and no request issued.
C7_NoRemoteCallOnMalformedId ==
    (pc = "exited" /\ InvalidDatabaseId(FindStringSubmatch(db))) =>
        /\ adminClient = "none"
        /\ dataClient = "none"
        /\ reqLog = <<>>

-----------------------------------------------------------------------------
(* C8 *)

\* C8: every Albums row's SingerId is the SingerId of a Singers row, in
\* every state of the store; the child batch is submitted with the parent
\* batch committed, and each of its rows references one of the first three
\* identifiers of the run.
C8_AlbumsReferenceSingers ==
    /\ \A a \in albumsTbl : \E g \in singersTbl : g[1] = a[1]
    /\ pc = "applyM2" =>
          \A k \in 1..Len(M2(uuids)) :
              /\ M2(uuids)[k].values[1] \in {At(uuids, 0), At(uuids, 1), At(uuids, 2)}
              /\ \E g \in singersTbl : g[1] = M2(uuids)[k].values[1]
    /\ \A r \in m2Attempted : \A k \in 0..2 :
          \E g \in singersTbl : g[1] = NewRandom(r, k)

\* after three runs: one seeded both tables, one stopped between the two
\* batches and one failed in its parent batch
C8_Witness ==
    /\ Cardinality(albumsTbl) = 5
    /\ Cardinality(singersTbl) = 10
    /\ m1Failed /= {}
    /\ run = 3
    /\ pc = "exited"

-----------------------------------------------------------------------------
(* C9 *)

\* the request that may follow request q in a run, "none" when q failed
NextOp(q) ==
    CASE q.op = "CreateDatabase" /\ q.err = NoErr -> "Wait"
      [] q.op = "CreateDatabase" /\ ErrCode(q.err) = "AlreadyExists" -> "ApplyM1"
      [] q.op = "Wait" /\ q.err = NoErr -> "ApplyM1"
      [] q.op = "Wait" /\ ErrCode(q.err) = "AlreadyExists" -> "ApplyM1"
      [] q.op = "ApplyM1" /\ q.err = NoErr -> "ApplyM2"
      [] q.op = "ApplyM2" /\ q.err = NoErr -> "Query"
      [] OTHER -> "none"

\* C9: in one run the remote requests are create-database (followed by the
\* wait on its operation), parent batch, child batch, query, in this order,
\* each at most once, each only after the one before succeeded (or
\* create-database failed with AlreadyExists); a failed request is the last
\* of its run, and a run that failed before a step issues none of the
\* requests of that step or of the later ones.
C9_RequestOrder ==
    /\ reqLog /= <<>> => reqLog[1].op = "CreateDatabase"
    /\ \A i \in 2..Len(reqLog) : reqLog[i].op = NextOp(reqLog[i - 1])
    /\ fatalMsg = "Create client" => reqLog = <<>>
    /\ createErr = InvalidIdErr => reqLog = <<>>
    /\ (fatalMsg = "insert records" /\ Len(uuids) < NumUuids) =>
          Ops(reqLog) \cap {"ApplyM1", "ApplyM2", "Query"} = {}
    /\ fatalMsg = "insert records" => "Query" \notin Ops(reqLog)

\* a complete run: all four steps were issued, after AlreadyExists
C9_Witness ==
    /\ pc = "exited"
    /\ Len(reqLog) = 4
    /\ ErrCode(reqLog[1].err) = "AlreadyExists"
    /\ reqLog[4].op = "Query"

-----------------------------------------------------------------------------
(* C10 *)

\* C10: queryAlbums returns the complete list of the rows delivered before
\* the end of the results, in delivery order, and no error, or a nil list
\* and the error; main logs one row line per returned row when the read
\* succeeded, and none when it failed.
C10_NoPartialResult ==
    /\ QueryReturned =>
          \/ /\ err = NoErr
             /\ result = List(delivered)
             /\ pending = <<>>
          \/ /\ err /= NoErr
             /\ result = NilList
    /\ rowLogs /= <<>> =>
          /\ pc = "exited"
          /\ fatalMsg = ""
          /\ rowLogs = delivered
    /\ (pc = "exited" /\ fatalMsg = "" ) => rowLogs = result.rows
    /\ fatalMsg = "query records" => (rowLogs = <<>> /\ err /= NoErr)

\* the read failed after two rows had been decoded
C10_Witness ==
    /\ pc = "exited"
    /\ fatalMsg = "query records"
    /\ Len(albums) >= 2
    /\ result = NilList

====
